---- MODULE Spec2Model ----
(***************************************************************************)
(* Bot Browser: card utilities (sortCards, filterCards, deduplicateCards,  *)
(* validateCardImages, getRandomCard) and the Chub API service             *)
(* (fetchChubCards, saveChubToken, getChubToken, clearChubToken).          *)
(*                                                                         *)
(* JavaScript strings are sequences of one-character strings, so that      *)
(* toLowerCase, trim, includes, startsWith and localeCompare are computed. *)
(* A missing property (undefined) is the one-element sequence `undefined`, *)
(* which is no string of characters.                                       *)
(***************************************************************************)
EXTENDS Integers, Sequences, FiniteSets, TLC

VARIABLES
    console,      \* console.log / console.error calls, in order
    ddCards,      \* deduplicateCards: the argument array
    ddResult,     \* deduplicateCards: the returned array
    ddPc,         \* deduplicateCards: "ready" | "returned"
    heap,         \* sortCards: the arrays that exist, by reference
    sortArg,      \* sortCards: the reference of the caller's array
    sortBefore,   \* sortCards: what the caller's array held when called
    sortBy,       \* sortCards: the sort token
    sortRet,      \* sortCards: the reference returned (0: none yet)
    sortPc,       \* sortCards: "ready" | "returned"
    fCards,       \* filterCards: the argument array
    fFilters,     \* filterCards: filters {search, tags, creator}
    fFuse,        \* filterCards: the Fuse index (or none) and what it finds
    fSettings,    \* filterCards: extension_settings[extensionName]
    fResult,      \* filterCards: the returned array
    fPc,          \* filterCards: "ready" | "returned"
    toasts,       \* toastr calls, in order
    rcSource,     \* getRandomCard: source
    rcCurrent,    \* getRandomCard: currentCards
    rcPc,         \* getRandomCard: "idle" | "awaitLoad" | "done"
    rcIdx,        \* getRandomCard: position of the for-of loop in serviceNames
    rcCards,      \* getRandomCard: the local array cards
    rcServiceCards, \* getRandomCard: the local serviceCards of the last iteration
    loadCalls,    \* the calls of loadServiceIndexFunc so far, each with its state
    rcSettled,    \* getRandomCard's promise: "pending" | "resolved" | "rejected"
    rcResult,     \* what the promise resolved to: <<>> for null, <<card>> for a card
    localStorage, \* the value stored under botBrowser_chubApiToken, or null
    tokenCalls,   \* how many saveChubToken / clearChubToken calls were made
    lastTokenCall, \* the most recent of them, with its argument
    fetchPc,      \* fetchChubCards: "idle" | "awaitFetch" | "awaitJson" | "done"
    fetchImpl,    \* fetchChubCards: which of the two source files was called
    fetchRequest, \* fetchChubCards: the query parameters and headers sent
    fetchSettled, \* fetchChubCards' promise: "pending" | "resolved" | "rejected"
    fetchResult,  \* fetchChubCards: the object resolved to, or the error thrown
    bgImage,      \* per thumbnail: imageDiv.style.backgroundImage
    classList,    \* per thumbnail: imageDiv.classList
    children,     \* per thumbnail: the child elements of imageDiv
    testImgs,     \* per thumbnail and validateCardImages call: the test image
    failedCount,  \* per validateCardImages call: its local failedCount
    validations   \* how many validateCardImages calls were made

dedupVars == <<ddCards, ddResult, ddPc>>
sortVars == <<heap, sortArg, sortBefore, sortBy, sortRet, sortPc>>
filterVars == <<fCards, fFilters, fFuse, fSettings, fResult, fPc>>
randomVars ==
    <<rcSource, rcCurrent, rcPc, rcIdx, rcCards, rcServiceCards, loadCalls,
      rcSettled, rcResult>>
chubVars ==
    <<localStorage, tokenCalls, lastTokenCall, fetchPc, fetchImpl, fetchRequest,
      fetchSettled, fetchResult>>
imageVars == <<bgImage, classList, children, testImgs, failedCount, validations>>
vars ==
    <<console, toasts, dedupVars, sortVars, filterVars, randomVars, chubVars, imageVars>>

\* what the actions of one function leave alone
exceptDedup == <<toasts, sortVars, filterVars, randomVars, chubVars, imageVars>>
exceptSort == <<console, toasts, dedupVars, filterVars, randomVars, chubVars, imageVars>>
exceptFilter == <<console, toasts, dedupVars, sortVars, randomVars, chubVars, imageVars>>
exceptRandom == <<dedupVars, sortVars, filterVars, chubVars, imageVars>>
exceptChub == <<toasts, dedupVars, sortVars, filterVars, randomVars, imageVars>>
exceptImages == <<toasts, dedupVars, sortVars, filterVars, randomVars, chubVars>>

----------------------------------------------------------------------------
(* JavaScript values and string primitives *)

undefined == <<"undefined">>

\* a missing property where an array of strings is expected
undefinedArray == <<undefined>>

\* null, where a string is expected (localStorage.getItem of an absent key)
null == <<"null">>

Truthy(s) == s # undefined /\ s # <<>>

\* a || b on strings
OrElse(a, b) == IF Truthy(a) THEN a ELSE b

Whitespace == {" "}

ToLowerChar(c) ==
    CASE c = "A" -> "a"
      [] c = "B" -> "b"
      [] c = "C" -> "c"
      [] c = "U" -> "u"
      [] c = "X" -> "x"
      [] OTHER -> c

ToLowerCase(s) == [i \in 1..Len(s) |-> ToLowerChar(s[i])]

RECURSIVE TrimStart(_)
TrimStart(s) ==
    IF s # <<>> /\ Head(s) \in Whitespace THEN TrimStart(Tail(s)) ELSE s

RECURSIVE TrimEnd(_)
TrimEnd(s) ==
    IF s # <<>> /\ s[Len(s)] \in Whitespace
    THEN TrimEnd(SubSeq(s, 1, Len(s) - 1))
    ELSE s

Trim(s) == TrimEnd(TrimStart(s))

\* String.prototype.includes
Includes(s, sub) ==
    \E i \in 0..(Len(s) - Len(sub)) : SubSeq(s, i + 1, i + Len(sub)) = sub

\* String.prototype.startsWith
StartsWith(s, prefix) ==
    Len(s) >= Len(prefix) /\ SubSeq(s, 1, Len(prefix)) = prefix

\* Array.prototype.includes
ArrayIncludes(arr, x) == \E i \in 1..Len(arr) : arr[i] = x

SeqsUpTo(S, n) == UNION {[1..k -> S] : k \in 0..n}

LogEntry(level, msg) == [level |-> level, msg |-> msg]

\* the state of a function that is not being called
IdleDedup == ddCards = <<>> /\ ddResult = <<>> /\ ddPc = "idle"

IdleSort ==
    /\ heap = <<>>
    /\ sortArg = 0
    /\ sortBefore = <<>>
    /\ sortBy = "relevance"
    /\ sortRet = 0
    /\ sortPc = "idle"

IdleFilter ==
    /\ fCards = <<>>
    /\ fFilters = [search |-> <<>>, tags |-> <<>>, creator |-> undefined]
    /\ fFuse = [present |-> FALSE, results |-> <<>>]
    /\ fSettings = [hideNsfw |-> FALSE, tagBlocklist |-> undefinedArray]
    /\ fResult = <<>>
    /\ fPc = "idle"

IdleRandom ==
    /\ rcSource = "current"
    /\ rcCurrent = <<>>
    /\ rcPc = "idle"
    /\ rcIdx = 0
    /\ rcCards = <<>>
    /\ rcServiceCards = <<>>
    /\ loadCalls = <<>>
    /\ rcSettled = "pending"
    /\ rcResult = <<>>

NoHeaders == [Accept |-> undefined, CH_API_KEY |-> undefined, Authorization |-> undefined]

\* a query parameter that is not appended
NoParam == "<absent>"

NoRequest ==
    [first |-> NoParam, sort |-> NoParam, search |-> NoParam,
     cursor |-> NoParam, venus |-> NoParam, headers |-> NoHeaders]

NoFetchResult == [cards |-> <<>>, cursor |-> "null", count |-> "0", error |-> ""]

IdleFetch ==
    /\ fetchPc = "idle"
    /\ fetchImpl = "chubApi.js"
    /\ fetchRequest = NoRequest
    /\ fetchSettled = "pending"
    /\ fetchResult = NoFetchResult

EmptyStorage ==
    /\ localStorage = null
    /\ tokenCalls = 0
    /\ lastTokenCall = [op |-> "none", token |-> undefined]

IdleChub == EmptyStorage /\ IdleFetch

\* the .bot-browser-card-thumbnail elements of the document
Thumbnails == {"t1", "t2"}

MaxValidations == 2
Calls == 1..MaxValidations

\* no test image was created
NoTestImg == [state |-> "none", src |-> <<>>]

NoValidation ==
    /\ testImgs = [t \in Thumbnails |-> [c \in Calls |-> NoTestImg]]
    /\ failedCount = [c \in Calls |-> 0]
    /\ validations = 0

IdleImages ==
    /\ bgImage = [t \in Thumbnails |-> <<>>]
    /\ classList = [t \in Thumbnails |-> {}]
    /\ children = [t \in Thumbnails |-> <<>>]
    /\ NoValidation

----------------------------------------------------------------------------
(* deduplicateCards *)

MaxDedupCards == 3

DedupNames == {undefined, <<"a">>, <<" ", "A">>, <<"a", "|", "b">>}
DedupCreators ==
    {undefined, <<"B", " ">>, <<"b", "|", "b">>, <<"U", "n", "k", "n", "o", "w", "n">>}
\* the service a card of the input comes from, by its position
DedupService(i) == IF i % 2 = 1 THEN "chub" ELSE "catbox"

\* the key of the mutant below: the creator is not trimmed
CardKeyUntrimmedCreator(card) ==
    Trim(ToLowerCase(OrElse(card.name, <<>>))) \o <<"|">>
        \o ToLowerCase(OrElse(card.creator, <<"u", "n", "k", "n", "o", "w", "n">>))

\* `${normalizedName}|${normalizedCreator}`
CardKey(card) ==
    LET normalizedName == Trim(ToLowerCase(OrElse(card.name, <<>>)))
        normalizedCreator ==
            Trim(ToLowerCase(OrElse(card.creator, <<"u", "n", "k", "n", "o", "w", "n">>)))
    IN normalizedName \o <<"|">> \o normalizedCreator

EmptyMap == [k \in {} |-> <<>>]

MapSet(m, k, v) == [x \in (DOMAIN m) \cup {k} |-> IF x = k THEN v ELSE m[x]]

\* the for-of loop: seen is the Map, deduplicated the array built so far
RECURSIVE DedupLoop(_, _, _, _, _)
DedupLoop(cards, i, seen, deduplicated, log) ==
    IF i > Len(cards)
    THEN [deduplicated |-> deduplicated, log |-> log]
    ELSE LET card == cards[i]
             key == CardKey(card)
         IN IF key \in DOMAIN seen
            THEN DedupLoop(cards, i + 1, seen, deduplicated,
                           Append(log, LogEntry("log", "Removing duplicate card")))
            ELSE DedupLoop(cards, i + 1, MapSet(seen, key, card),
                           Append(deduplicated, card), log)

deduplicateCards(cards) ==
    LET r == DedupLoop(cards, 1, EmptyMap, <<>>, <<>>)
        removedCount == Len(cards) - Len(r.deduplicated)
    IN [deduplicated |-> r.deduplicated,
        log |-> IF removedCount > 0
                THEN Append(r.log, LogEntry("log", "Removed duplicate cards"))
                ELSE r.log]

DedupCard(i, shape) ==
    [id |-> i, name |-> shape[1], creator |-> shape[2], service |-> DedupService(i)]

InitDedup ==
    /\ console = <<>>
    /\ \E n \in 0..MaxDedupCards :
          \E f \in [1..n -> DedupNames \X DedupCreators] :
              ddCards = [i \in 1..n |-> DedupCard(i, f[i])]
    /\ ddResult = <<>>
    /\ ddPc = "ready"
    /\ IdleSort
    /\ IdleFilter
    /\ toasts = <<>>
    /\ IdleRandom
    /\ IdleChub
    /\ IdleImages

DeduplicateCards ==
    /\ ddPc = "ready"
    /\ LET r == deduplicateCards(ddCards)
       IN /\ ddResult' = r.deduplicated
          /\ console' = console \o r.log
    /\ ddPc' = "returned"
    /\ UNCHANGED <<ddCards, exceptDedup>>

NextDedup == DeduplicateCards

SpecDedup == InitDedup /\ [][NextDedup]_vars

----------------------------------------------------------------------------
(* C1 *)

\* the key as the claim states it
C1_Key(card) ==
    LET name == IF card.name = undefined THEN <<>> ELSE card.name
        creator == IF card.creator = undefined \/ card.creator = <<>>
                   THEN <<"u", "n", "k", "n", "o", "w", "n">>
                   ELSE card.creator
    IN Trim(ToLowerCase(name)) \o <<"|">> \o Trim(ToLowerCase(creator))

\* positions of the input that hold a card with the given key
C1_Positions(key) == {i \in 1..Len(ddCards) : C1_Key(ddCards[i]) = key}

C1_Min(S) == CHOOSE m \in S : \A x \in S : m <= x

\* C1: deduplicateCards keeps the first occurrence per normalized
\* name|creator key: the output is a subsequence of the input, no two output
\* cards share a key, and for every key of the input the output card with
\* that key is the earliest input card with that key.
C1_DedupKeepsFirst ==
    ddPc = "returned" =>
        /\ \A j \in 1..Len(ddResult) :
              /\ ddResult[j].id \in 1..Len(ddCards)
              /\ ddResult[j] = ddCards[ddResult[j].id]
        /\ \A j, k \in 1..Len(ddResult) : j < k => ddResult[j].id < ddResult[k].id
        /\ \A j, k \in 1..Len(ddResult) :
              j # k => C1_Key(ddResult[j]) # C1_Key(ddResult[k])
        /\ \A i \in 1..Len(ddCards) :
              \E j \in 1..Len(ddResult) :
                  /\ C1_Key(ddResult[j]) = C1_Key(ddCards[i])
                  /\ ddResult[j].id = C1_Min(C1_Positions(C1_Key(ddCards[i])))

\* a duplicate was removed, and it was not adjacent to the card kept
C1_Witness ==
    /\ ddPc = "returned"
    /\ Len(ddCards) = 3
    /\ Len(ddResult) = 2
    /\ ddResult[1].id = 1
    /\ ddResult[2].id = 2
    /\ ddCards[3].name # ddCards[1].name
    /\ C1_Key(ddCards[3]) = C1_Key(ddCards[1])

----------------------------------------------------------------------------
(* sortCards *)

MaxSortCards == 3

SortNames == {undefined, <<"a">>, <<"B">>}
SortCreators == {undefined, <<>>, <<"b">>}

LocalSorts == {"name_asc", "name_desc", "creator_asc", "creator_desc"}

\* isApiLevelSort's list
apiSorts ==
    {"recent", "trending", "rating", "stars", "downloads", "favorites",
     "newcomer", "activity", "default"}

isApiLevelSort(token) == token \in apiSorts

\* the tokens a caller may pass: the known ones, and one no case names
SortTokens == LocalSorts \cup apiSorts \cup {"relevance", "popular"}

\* collation: letters first compare without case, then lower case first
CharRank(c) ==
    CASE c \in {"a", "A"} -> 1
      [] c \in {"b", "B"} -> 2
      [] c \in {"c", "C"} -> 3
      [] OTHER -> 4

CharCase(c) == IF c \in {"A", "B", "C"} THEN 1 ELSE 0

RECURSIVE LexCompare(_, _)
LexCompare(u, v) ==
    IF u = <<>> /\ v = <<>> THEN 0
    ELSE IF u = <<>> THEN -1
    ELSE IF v = <<>> THEN 1
    ELSE IF Head(u) < Head(v) THEN -1
    ELSE IF Head(u) > Head(v) THEN 1
    ELSE LexCompare(Tail(u), Tail(v))

\* String.prototype.localeCompare
LocaleCompare(a, b) ==
    LET primary == LexCompare([i \in 1..Len(a) |-> CharRank(a[i])],
                              [i \in 1..Len(b) |-> CharRank(b[i])])
    IN IF primary # 0
       THEN primary
       ELSE LexCompare([i \in 1..Len(a) |-> CharCase(a[i])],
                       [i \in 1..Len(b) |-> CharCase(b[i])])

\* the comparator each local case hands to sort
Comparator(token, a, b) ==
    CASE token = "name_asc" ->
             LocaleCompare(OrElse(a.name, <<>>), OrElse(b.name, <<>>))
      [] token = "name_desc" ->
             LocaleCompare(OrElse(b.name, <<>>), OrElse(a.name, <<>>))
      [] token = "creator_asc" ->
             LocaleCompare(OrElse(a.creator, <<>>), OrElse(b.creator, <<>>))
      [] token = "creator_desc" ->
             LocaleCompare(OrElse(b.creator, <<>>), OrElse(a.creator, <<>>))

\* Array.prototype.sort is stable: x goes after the last element that does
\* not compare greater than it
InsertStable(s, x, token) ==
    LET notGreater == {j \in 1..Len(s) : Comparator(token, s[j], x) <= 0}
        pos == IF notGreater = {} THEN 0
               ELSE CHOOSE j \in notGreater : \A k \in notGreater : k <= j
    IN SubSeq(s, 1, pos) \o <<x>> \o SubSeq(s, pos + 1, Len(s))

RECURSIVE ArraySortFrom(_, _, _, _)
ArraySortFrom(arr, i, acc, token) ==
    IF i > Len(arr) THEN acc
    ELSE ArraySortFrom(arr, i + 1, InsertStable(acc, arr[i], token), token)

ArraySort(arr, token) == ArraySortFrom(arr, 1, <<>>, token)

Reverse(s) == [i \in 1..Len(s) |-> s[Len(s) + 1 - i]]

\* mutant: the descending cases sort ascending and reverse
SwitchReversingDesc(sorted, token) ==
    CASE token \in {"name_asc", "creator_asc"} -> ArraySort(sorted, token)
      [] token = "name_desc" -> Reverse(ArraySort(sorted, "name_asc"))
      [] token = "creator_desc" -> Reverse(ArraySort(sorted, "creator_asc"))
      [] OTHER -> sorted

\* mutant: the API-level cases fall through to the name sort
SwitchSortingApi(sorted, token) ==
    CASE token \in LocalSorts -> ArraySort(sorted, token)
      [] token \in apiSorts -> ArraySort(sorted, "name_asc")
      [] OTHER -> sorted

\* the switch: what the array `sorted` holds when it is returned
SortSwitch(sorted, token) ==
    CASE token \in LocalSorts -> ArraySort(sorted, token)
      [] token \in apiSorts -> sorted
      [] OTHER -> sorted

NewRef(h) == Len(h) + 1

\* mutant: const sorted = cards
AliasArray(h, ref) == [heap |-> h, ref |-> ref]

\* const sorted = [...cards]
SpreadArray(h, ref) == [heap |-> Append(h, h[ref]), ref |-> NewRef(h)]

SortCard(i, shape) == [id |-> i, name |-> shape[1], creator |-> shape[2]]

InitSort ==
    /\ console = <<>>
    /\ toasts = <<>>
    /\ IdleDedup
    /\ IdleFilter
    /\ IdleRandom
    /\ IdleChub
    /\ IdleImages
    /\ \E n \in 0..MaxSortCards :
          \E f \in [1..n -> SortNames \X SortCreators] :
              LET input == [i \in 1..n |-> SortCard(i, f[i])]
              IN /\ heap = <<input>>
                 /\ sortBefore = input
    /\ sortArg = 1
    /\ sortBy = "relevance"
    /\ sortRet = 0
    /\ sortPc = "ready"

SortCards(token) ==
    /\ sortPc = "ready"
    /\ LET copy == SpreadArray(heap, sortArg)
       IN /\ heap' = [copy.heap EXCEPT ![copy.ref] = SortSwitch(copy.heap[copy.ref], token)]
          /\ sortRet' = copy.ref
    /\ sortBy' = token
    /\ sortPc' = "returned"
    /\ UNCHANGED <<sortArg, sortBefore, exceptSort>>

NextSort == \E token \in SortTokens : SortCards(token)

SpecSort == InitSort /\ [][NextSort]_vars

----------------------------------------------------------------------------
(* C3, C4, C5 *)

IsPermutation(s, t) ==
    /\ Len(s) = Len(t)
    /\ \E p \in [1..Len(s) -> 1..Len(s)] :
          /\ \A i, j \in 1..Len(s) : i # j => p[i] # p[j]
          /\ \A i \in 1..Len(s) : s[i] = t[p[i]]

\* C3: sortCards is non-mutating: for every sortBy token the caller's array
\* holds after the call the cards it held before, in the same order, and the
\* array returned is another array, a permutation of the input.
C3_SortNonMutating ==
    sortPc = "returned" =>
        /\ heap[sortArg] = sortBefore
        /\ sortRet # sortArg
        /\ sortRet \in 1..Len(heap)
        /\ IsPermutation(heap[sortRet], sortBefore)

\* a local sort that had to reorder the cards
C3_Witness ==
    /\ sortPc = "returned"
    /\ sortBy = "name_desc"
    /\ heap[sortRet] # sortBefore
    /\ heap[sortArg] = sortBefore

\* the field a local token sorts by, a missing one as the empty string
C4_Field(token, card) ==
    LET v == IF token \in {"name_asc", "name_desc"} THEN card.name ELSE card.creator
    IN IF v = undefined THEN <<>> ELSE v

C4_Ascending(token) == token \in {"name_asc", "creator_asc"}

\* C4: for name_asc, name_desc, creator_asc and creator_desc the output is
\* ordered by the chosen field (ascending for *_asc, descending for *_desc)
\* and cards whose fields compare equal keep their input order.
C4_SortStable ==
    (sortPc = "returned" /\ sortBy \in LocalSorts) =>
        LET out == heap[sortRet]
        IN /\ Len(out) = Len(sortBefore)
           /\ \A i \in 1..Len(out) :
                 out[i].id \in 1..Len(sortBefore) /\ out[i] = sortBefore[out[i].id]
           /\ \A i, j \in 1..Len(out) :
                 i < j =>
                     LET c == LocaleCompare(C4_Field(sortBy, out[i]),
                                            C4_Field(sortBy, out[j]))
                     IN /\ C4_Ascending(sortBy) => c <= 0
                        /\ ~C4_Ascending(sortBy) => c >= 0
                        /\ c = 0 => out[i].id < out[j].id

\* a descending sort that moved a card ahead of two equal ones, which kept
\* their order
C4_Witness ==
    /\ sortPc = "returned"
    /\ sortBy = "creator_desc"
    /\ Len(sortBefore) = 3
    /\ heap[sortRet][1].id = 3
    /\ heap[sortRet][2].id = 1
    /\ heap[sortRet][3].id = 2
    /\ LocaleCompare(C4_Field(sortBy, sortBefore[1]), C4_Field(sortBy, sortBefore[2])) = 0
    /\ sortBefore[1].creator # sortBefore[2].creator

C5_PassThrough == apiSorts \cup {"relevance", "popular"}

\* C5: for every API-level token, for relevance and for an unrecognised
\* token sortCards returns the cards in the input order: the same length
\* and the same card at every index.
C5_ApiSortsKeepOrder ==
    (sortPc = "returned" /\ sortBy \in C5_PassThrough) =>
        /\ Len(heap[sortRet]) = Len(sortBefore)
        /\ \A i \in 1..Len(sortBefore) : heap[sortRet][i] = sortBefore[i]

\* an API-level sort of cards that a name sort would have reordered
C5_Witness ==
    /\ sortPc = "returned"
    /\ sortBy = "trending"
    /\ Len(sortBefore) = 2
    /\ LocaleCompare(C4_Field("name_asc", sortBefore[1]),
                     C4_Field("name_asc", sortBefore[2])) > 0
    /\ heap[sortRet] = sortBefore

----------------------------------------------------------------------------
(* filterCards *)

MaxFilterCards == 2

\* the cards filterCards is tried on: fields present, missing and empty,
\* tags, descriptions and names in either case and with blanks around
FilterShapes ==
    { [tags |-> << <<"x">>, <<"y">> >>, creator |-> <<"c">>, possibleNsfw |-> FALSE,
       desc_search |-> <<"a", "c">>, desc_preview |-> undefined,
       description |-> undefined, name |-> <<"a">>],
      [tags |-> undefinedArray, creator |-> undefined, possibleNsfw |-> TRUE,
       desc_search |-> undefined, desc_preview |-> undefined,
       description |-> undefined, name |-> undefined],
      [tags |-> << <<"X", " ">> >>, creator |-> <<"c">>, possibleNsfw |-> FALSE,
       desc_search |-> <<>>, desc_preview |-> <<"c", "b">>,
       description |-> <<"a">>, name |-> <<"c">>],
      [tags |-> << <<"y">> >>, creator |-> <<"C">>, possibleNsfw |-> FALSE,
       desc_search |-> undefined, desc_preview |-> <<>>,
       description |-> <<"A", "X">>, name |-> <<"c">>],
      [tags |-> << <<"y">>, <<"x">> >>, creator |-> <<"c">>, possibleNsfw |-> TRUE,
       desc_search |-> <<"c">>, desc_preview |-> <<"b">>,
       description |-> <<"b">>, name |-> <<"A", "B">>],
      [tags |-> << >>, creator |-> <<"c">>, possibleNsfw |-> FALSE,
       desc_search |-> <<"c">>, desc_preview |-> <<"x">>,
       description |-> <<"b">>, name |-> <<"c">>] }

FilterTagChoices == { << >>, << <<"x">> >>, << <<"x">>, <<"y">> >> }
FilterCreatorChoices == {undefined, <<>>, <<"c">>}
BlocklistChoices ==
    { undefinedArray, << >>, << <<" ">> >>, << <<" ", "X", " ">> >>,
      << <<" ">>, <<"B">> >>, << <<"a", "b">> >> }

\* extension_settings[extensionName].tagBlocklist || [], each term
\* lowercased and trimmed, the empty ones dropped
NormalizedBlocklist(settings) ==
    LET blocklist == IF settings.tagBlocklist = undefinedArray
                     THEN <<>> ELSE settings.tagBlocklist
        normalized == [i \in 1..Len(blocklist) |-> Trim(ToLowerCase(blocklist[i]))]
        NonEmpty(term) == Len(term) > 0
    IN SelectSeq(normalized, NonEmpty)

\* mutant: the description is searched as written, not lowercased
CardDescAsWritten(card) ==
    OrElse(card.desc_search, OrElse(card.desc_preview, OrElse(card.description, <<>>)))

\* (card.desc_search || card.desc_preview || card.description || '').toLowerCase()
CardDesc(card) ==
    ToLowerCase(OrElse(card.desc_search,
                       OrElse(card.desc_preview, OrElse(card.description, <<>>))))

\* the blocklist part of the filter callback: TRUE when the card is blocked
Blocked(card, settings) ==
    LET normalizedBlocklist == NormalizedBlocklist(settings)
    IN /\ Len(normalizedBlocklist) > 0
       /\ \/ /\ card.tags # undefinedArray
             /\ LET normalizedTags ==
                        [i \in 1..Len(card.tags) |-> Trim(ToLowerCase(card.tags[i]))]
                IN \E b \in 1..Len(normalizedBlocklist) :
                       ArrayIncludes(normalizedTags, normalizedBlocklist[b])
          \/ \E b \in 1..Len(normalizedBlocklist) :
                 Includes(CardDesc(card), normalizedBlocklist[b])
          \/ \E b \in 1..Len(normalizedBlocklist) :
                 Includes(ToLowerCase(OrElse(card.name, <<>>)), normalizedBlocklist[b])

\* the filter callback: TRUE when the card is kept
KeepCard(card, filters, settings) ==
    /\ ~(/\ Len(filters.tags) > 0
         /\ \/ card.tags = undefinedArray
            \/ ~\A t \in 1..Len(filters.tags) : ArrayIncludes(card.tags, filters.tags[t]))
    /\ ~(Truthy(filters.creator) /\ card.creator # filters.creator)
    /\ ~(settings.hideNsfw /\ card.possibleNsfw)
    /\ ~Blocked(card, settings)

\* what fuse.search(filters.search) can return: the cards of the index by
\* relevance, here the indexed cards reversed or all but the first
FuseResults(indexed) ==
    {Reverse(indexed)} \cup (IF indexed = <<>> THEN {} ELSE {Tail(indexed)})

filterCards(cards, filters, fuse, settings) ==
    LET searched == IF Truthy(filters.search) /\ fuse.present
                    THEN fuse.results ELSE cards
        Keep(card) == KeepCard(card, filters, settings)
    IN SelectSeq(searched, Keep)

FilterCard(i, shape) ==
    [id |-> i, tags |-> shape.tags, creator |-> shape.creator,
     possibleNsfw |-> shape.possibleNsfw, desc_search |-> shape.desc_search,
     desc_preview |-> shape.desc_preview, description |-> shape.description,
     name |-> shape.name]

InitFilter ==
    /\ console = <<>>
    /\ toasts = <<>>
    /\ IdleDedup
    /\ IdleSort
    /\ IdleRandom
    /\ IdleChub
    /\ IdleImages
    /\ \E n \in 0..MaxFilterCards :
          \E f \in [1..n -> FilterShapes] :
              fCards = [i \in 1..n |-> FilterCard(i, f[i])]
    /\ \E search \in {<<>>, <<"q">>}, tags \in FilterTagChoices,
          creator \in FilterCreatorChoices :
              fFilters = [search |-> search, tags |-> tags, creator |-> creator]
    /\ \/ fFuse = [present |-> FALSE, results |-> <<>>]
       \/ \E results \in FuseResults(fCards) :
              fFuse = [present |-> TRUE, results |-> results]
    /\ \E hideNsfw \in BOOLEAN, blocklist \in BlocklistChoices :
          fSettings = [hideNsfw |-> hideNsfw, tagBlocklist |-> blocklist]
    /\ fResult = <<>>
    /\ fPc = "ready"

FilterCards ==
    /\ fPc = "ready"
    /\ fResult' = filterCards(fCards, fFilters, fFuse, fSettings)
    /\ fPc' = "returned"
    /\ UNCHANGED <<fCards, fFilters, fFuse, fSettings, exceptFilter>>

NextFilter == FilterCards

SpecFilter == InitFilter /\ [][NextFilter]_vars

----------------------------------------------------------------------------
(* C2 *)

C2_Description(card) ==
    IF card.desc_search # undefined /\ card.desc_search # <<>> THEN card.desc_search
    ELSE IF card.desc_preview # undefined /\ card.desc_preview # <<>> THEN card.desc_preview
    ELSE IF card.description # undefined THEN card.description
    ELSE <<>>

C2_Name(card) == IF card.name = undefined THEN <<>> ELSE card.name

C2_Terms ==
    IF fSettings.tagBlocklist = undefinedArray THEN {}
    ELSE {Trim(ToLowerCase(fSettings.tagBlocklist[i])) :
              i \in 1..Len(fSettings.tagBlocklist)} \ {<<>>}

C2_Matches(card) ==
    /\ fFilters.tags # <<>> =>
          /\ card.tags # undefinedArray
          /\ \A t \in 1..Len(fFilters.tags) :
                 \E k \in 1..Len(card.tags) : card.tags[k] = fFilters.tags[t]
    /\ (fFilters.creator # undefined /\ fFilters.creator # <<>>) =>
          card.creator = fFilters.creator
    /\ fSettings.hideNsfw => ~card.possibleNsfw
    /\ \A term \in C2_Terms :
          /\ card.tags # undefinedArray =>
                 \A k \in 1..Len(card.tags) : Trim(ToLowerCase(card.tags[k])) # term
          /\ ~Includes(ToLowerCase(C2_Description(card)), term)
          /\ ~Includes(ToLowerCase(C2_Name(card)), term)

\* C2: filterCards returns only cards matching all active filters: every
\* returned card has every tag of filters.tags, has the creator of
\* filters.creator when one is set, is not flagged possibleNsfw when hideNsfw
\* is on, and for every non-blank blocklist term has no tag equal to it, and
\* no occurrence of it in its description or its name (all lowercased).
C2_FilterOnlyMatching ==
    fPc = "returned" => \A i \in 1..Len(fResult) : C2_Matches(fResult[i])

\* a blocklist term met only in the upper-case description of a card removed
\* it, while another card was returned
C2_Witness ==
    /\ fPc = "returned"
    /\ Len(fCards) = 2
    /\ Len(fResult) = 1
    /\ fSettings.tagBlocklist = << <<" ", "X", " ">> >>
    /\ fFilters.tags = <<>>
    /\ ~fSettings.hideNsfw
    /\ \E i \in 1..2 : fCards[i].description = <<"A", "X">>
    /\ fResult[1].description # <<"A", "X">>

----------------------------------------------------------------------------
(* getRandomCard *)

MaxCurrentCards == 2
MaxCandidates == 2

Toast(level, msg) == [level |-> level, msg |-> msg]

Http == <<"h", "t", "t", "p", ":", "/", "/">>
Https == <<"h", "t", "t", "p", "s", ":", "/", "/">>

\* the cards getRandomCard is tried on, by their image URLs
RandomCard(id, avatar, image) ==
    [id |-> id, avatar_url |-> avatar, image_url |-> image, sourceService |-> ""]

CardHttpsAvatar == RandomCard(1, Https \o <<"a">>, undefined)
CardHttpImage == RandomCard(2, <<>>, Http \o <<"b">>)
CardFtpAvatar == RandomCard(3, <<"f", "t", "p", ":", "/", "/", "c">>, Https \o <<"a">>)
CardBlankAvatar == RandomCard(4, <<" ">>, Http \o <<"b">>)
CardNoImage == RandomCard(5, undefined, undefined)
CardPaddedImage == RandomCard(6, undefined, <<" ">> \o Http \o <<"b">>)

RandomCards ==
    {CardHttpsAvatar, CardHttpImage, CardFtpAvatar, CardBlankAvatar, CardNoImage,
     CardPaddedImage}

\* what a call of loadServiceIndexFunc may resolve to
LoadResults ==
    { <<>>, <<CardFtpAvatar, CardHttpsAvatar>>, <<CardHttpsAvatar, CardHttpImage>>,
      <<CardBlankAvatar, CardNoImage, CardPaddedImage>> }

\* the source argument: a token, or missing
NoSource == "<undefined>"
RandomSources == {"current", "all", "chub", "", NoSource}

SourceFalsy(source) == source = "" \/ source = NoSource

serviceNames ==
    <<"anchorhold", "catbox", "character_tavern", "chub", "nyai_me", "risuai_realm",
      "webring", "mlpchag", "desuarchive">>

\* mutant: a card passes when either of its two URLs is an http(s) URL
HasValidImageEither(card) ==
    \E imageUrl \in {card.avatar_url, card.image_url} :
        /\ Truthy(imageUrl)
        /\ Len(Trim(imageUrl)) > 0
        /\ (StartsWith(imageUrl, Http) \/ StartsWith(imageUrl, Https))

\* the filter callback of the three branches
HasValidImage(card) ==
    LET imageUrl == OrElse(card.avatar_url, card.image_url)
    IN /\ Truthy(imageUrl)
       /\ Len(Trim(imageUrl)) > 0
       /\ (StartsWith(imageUrl, Http) \/ StartsWith(imageUrl, Https))

\* serviceCards.map(card => ({...card, sourceService: service})).filter(...)
CardsWithSource(serviceCards, service) ==
    SelectSeq([i \in 1..Len(serviceCards) |->
                   [serviceCards[i] EXCEPT !.sourceService = service]],
              HasValidImage)

\* mutant: every service is called at once and the results are awaited in turn
CallAllServices(calls, idx) ==
    IF idx = 1
    THEN [i \in 1..Len(serviceNames) |-> [service |-> serviceNames[i], state |-> "pending"]]
    ELSE calls

\* loadServiceIndexFunc(service), called by iteration idx of the loop
CallService(calls, idx) ==
    Append(calls, [service |-> serviceNames[idx], state |-> "pending"])

\* mutant: the catch block shows no toast
CatchToastsNothing(ts) == ts

\* toastr.error of the catch block
CatchToasts(ts) == Append(ts, Toast("error", "Failed to get random card"))

\* mutant: the catch block still picks among the cards loaded so far
CatchPicksLoaded(cards) == IF Len(cards) = 0 THEN {<<>>} ELSE {<<cards[1]>>}

\* return null of the catch block: what the promise resolves to
CatchResult(cards) == {<<>>}

\* catch (error) { ... }, ts the toasts shown so far, cards the local array
RandomCatch(ts, cards) ==
    /\ console' = Append(console, LogEntry("error", "Error getting random card"))
    /\ toasts' = CatchToasts(ts)
    /\ rcSettled' = "resolved"
    /\ rcResult' \in CatchResult(cards)
    /\ rcPc' = "done"

\* from `if (cards.length === 0)` to the end of the try block
RandomPick(cards) ==
    /\ IF Len(cards) = 0
       THEN /\ toasts' = Append(toasts, Toast("warning", "No cards available"))
            /\ console' = console
            /\ rcResult' = <<>>
       ELSE /\ \E randomIndex \in 0..(Len(cards) - 1) :
                   rcResult' = <<cards[randomIndex + 1]>>
            /\ console' = Append(console, LogEntry("log", "Selected random card"))
            /\ toasts' = toasts
    /\ rcSettled' = "resolved"
    /\ rcPc' = "done"

\* iteration idx of the loop up to its await: the call of loadServiceIndexFunc,
\* which returns a promise or throws
LoopCall(idx, threw, ts, cards) ==
    IF threw
    THEN /\ loadCalls' = Append(loadCalls, [service |-> serviceNames[idx], state |-> "threw"])
         /\ RandomCatch(ts, cards)
    ELSE /\ loadCalls' = CallService(loadCalls, idx)
         /\ rcPc' = "awaitLoad"
         /\ toasts' = ts
         /\ UNCHANGED <<console, rcSettled, rcResult>>

\* the currentCards a caller passes; they are not read when all services load
CurrentChoices(source) ==
    IF source = "all" \/ SourceFalsy(source)
    THEN {<<CardHttpsAvatar, CardFtpAvatar>>}
    ELSE SeqsUpTo(RandomCards, MaxCurrentCards)

\* getRandomCard(source, currentCards, loadServiceIndexFunc), to its first
\* await or to its end
GetRandomCard(source, currentCards, threw) ==
    /\ rcPc = "idle"
    /\ rcSource' = source
    /\ rcCurrent' = currentCards
    /\ IF source = "current" /\ Len(currentCards) > 0
       THEN /\ ~threw
            /\ rcCards' = SelectSeq(currentCards, HasValidImage)
            /\ RandomPick(rcCards')
            /\ UNCHANGED <<rcIdx, rcServiceCards, loadCalls>>
       ELSE IF source = "all" \/ SourceFalsy(source)
       THEN /\ rcCards' = <<>>
            /\ rcIdx' = 1
            /\ LoopCall(1, threw, Append(toasts, Toast("info", "Loading all cards...")), <<>>)
            /\ UNCHANGED rcServiceCards
       ELSE /\ ~threw
            /\ rcCards' = SelectSeq(currentCards, HasValidImage)
            /\ RandomPick(rcCards')
            /\ UNCHANGED <<rcIdx, rcServiceCards, loadCalls>>
    /\ UNCHANGED exceptRandom

MarkCall(calls, idx, state) == [calls EXCEPT ![idx].state = state]

\* the awaited promise resolves: the rest of iteration rcIdx, then the next
\* iteration up to its await, or the end of the function
LoadResolves(serviceCards, threw) ==
    /\ rcPc = "awaitLoad"
    /\ loadCalls[rcIdx].state = "pending"
    /\ LET cardsWithSource == CardsWithSource(serviceCards, serviceNames[rcIdx])
           cards == rcCards \o cardsWithSource
       IN /\ Len(cards) <= MaxCandidates
          /\ rcServiceCards' = serviceCards
          /\ rcCards' = cards
          /\ IF rcIdx < Len(serviceNames)
             THEN /\ rcIdx' = rcIdx + 1
                  /\ IF threw
                     THEN /\ loadCalls' =
                                 Append(MarkCall(loadCalls, rcIdx, "resolved"),
                                        [service |-> serviceNames[rcIdx + 1], state |-> "threw"])
                          /\ RandomCatch(toasts, cards)
                     ELSE /\ loadCalls' =
                                 CallService(MarkCall(loadCalls, rcIdx, "resolved"), rcIdx + 1)
                          /\ UNCHANGED <<console, toasts, rcPc, rcSettled, rcResult>>
             ELSE /\ ~threw
                  /\ loadCalls' = MarkCall(loadCalls, rcIdx, "resolved")
                  /\ RandomPick(cards)
                  /\ UNCHANGED rcIdx
    /\ UNCHANGED <<rcSource, rcCurrent, exceptRandom>>

\* the awaited promise rejects: the catch block
LoadRejects ==
    /\ rcPc = "awaitLoad"
    /\ loadCalls[rcIdx].state = "pending"
    /\ loadCalls' = MarkCall(loadCalls, rcIdx, "rejected")
    /\ RandomCatch(toasts, rcCards)
    /\ UNCHANGED <<rcSource, rcCurrent, rcIdx, rcCards, rcServiceCards, exceptRandom>>

InitRandom ==
    /\ console = <<>>
    /\ toasts = <<>>
    /\ IdleDedup
    /\ IdleSort
    /\ IdleFilter
    /\ IdleRandom
    /\ IdleChub
    /\ IdleImages

NextRandom ==
    \/ /\ rcPc = "idle"
       /\ \E source \in RandomSources, threw \in BOOLEAN :
              \E currentCards \in CurrentChoices(source) :
                  GetRandomCard(source, currentCards, threw)
    \/ /\ rcPc = "awaitLoad"
       /\ \E serviceCards \in LoadResults, threw \in BOOLEAN :
              LoadResolves(serviceCards, threw)
    \/ LoadRejects

SpecRandom == InitRandom /\ [][NextRandom]_vars

----------------------------------------------------------------------------
(* C6, C10 *)

C6_LoadFailed ==
    \E i \in 1..Len(loadCalls) : loadCalls[i].state \in {"threw", "rejected"}

\* C6: getRandomCard never rejects; it resolves to null when no candidate
\* card remains after the image-URL filtering, and when a call of
\* loadServiceIndexFunc throws or rejects, even if earlier services already
\* contributed candidates; in every other case it resolves to a card.
C6_RandomNullOnFailure ==
    /\ rcSettled # "rejected"
    /\ rcPc = "done" =>
          /\ rcSettled = "resolved"
          /\ Len(rcResult) <= 1
          /\ rcResult = <<>> <=> (C6_LoadFailed \/ rcCards = <<>>)
          /\ rcResult # <<>> => \E i \in 1..Len(rcCards) : rcResult[1] = rcCards[i]

\* a service failed after two earlier ones had contributed candidates
C6_Witness ==
    /\ rcPc = "done"
    /\ rcSource = "all"
    /\ rcResult = <<>>
    /\ Len(rcCards) = 2
    /\ Len(loadCalls) = 3
    /\ loadCalls[3].state = "rejected"

C10_Order ==
    <<"anchorhold", "catbox", "character_tavern", "chub", "nyai_me", "risuai_realm",
      "webring", "mlpchag", "desuarchive">>

C10_Position(service) == CHOOSE i \in 1..Len(C10_Order) : C10_Order[i] = service

\* C10: when source is 'all' or unset loadServiceIndexFunc is called at most
\* once per service, in the fixed order, each call only after the previous
\* one has resolved, so that at most one load is in flight, and the
\* candidates are concatenated in that order; when source is 'current' or a
\* service name it is never called.
C10_SequentialLoads ==
    /\ Len(loadCalls) <= Len(C10_Order)
    /\ \A i \in 1..Len(loadCalls) :
          /\ loadCalls[i].service = C10_Order[i]
          /\ i < Len(loadCalls) => loadCalls[i].state = "resolved"
    /\ Cardinality({i \in 1..Len(loadCalls) : loadCalls[i].state = "pending"}) <= 1
    /\ \A i, j \in 1..Len(rcCards) :
          (i < j /\ loadCalls # <<>>) =>
              C10_Position(rcCards[i].sourceService) <= C10_Position(rcCards[j].sourceService)
    /\ \A i \in 1..Len(rcCards) :
          loadCalls # <<>> =>
              \E k \in 1..Len(loadCalls) :
                  /\ loadCalls[k].service = rcCards[i].sourceService
                  /\ loadCalls[k].state = "resolved"
    /\ (rcPc # "idle" /\ rcSource \in {"current", "chub"}) => loadCalls = <<>>

\* all nine services were loaded, one after the other, and two of them
\* contributed a candidate
C10_Witness ==
    /\ rcPc = "done"
    /\ Len(loadCalls) = 9
    /\ \A i \in 1..9 : loadCalls[i].state = "resolved"
    /\ Len(rcCards) = 2
    /\ rcCards[1].sourceService = "catbox"
    /\ rcCards[2].sourceService = "desuarchive"
    /\ rcResult = <<rcCards[2]>>

----------------------------------------------------------------------------
(* Chub API service: the stored token *)

MaxTokenCalls == 3

\* the arguments saveChubToken is tried on
TokenArgs == {undefined, <<>>, <<" ">>, <<"k">>, <<" ", "k", " ">>, <<"j">>}

\* mutant: the token is stored as typed
StoredUntrimmed(token) ==
    IF Truthy(token) /\ Truthy(Trim(token)) THEN token ELSE null

\* mutant: a blank token is stored, trimmed to the empty string
StoredWhenBlank(token) ==
    IF Truthy(token) THEN Trim(token) ELSE null

\* what saveChubToken leaves under CHUB_TOKEN_KEY
StoredAfterSave(token) ==
    IF Truthy(token) /\ Truthy(Trim(token)) THEN Trim(token) ELSE null

SaveChubToken(token) ==
    /\ tokenCalls < MaxTokenCalls
    /\ localStorage' = StoredAfterSave(token)
    /\ console' = Append(console,
                         IF Truthy(token) /\ Truthy(Trim(token))
                         THEN LogEntry("log", "Chub API token saved")
                         ELSE LogEntry("log", "Chub API token removed"))
    /\ tokenCalls' = tokenCalls + 1
    /\ lastTokenCall' = [op |-> "save", token |-> token]
    /\ UNCHANGED <<fetchPc, fetchImpl, fetchRequest, fetchSettled, fetchResult, exceptChub>>

ClearChubToken ==
    /\ tokenCalls < MaxTokenCalls
    /\ localStorage' = null
    /\ console' = Append(console, LogEntry("log", "Chub API token cleared"))
    /\ tokenCalls' = tokenCalls + 1
    /\ lastTokenCall' = [op |-> "clear", token |-> undefined]
    /\ UNCHANGED <<fetchPc, fetchImpl, fetchRequest, fetchSettled, fetchResult, exceptChub>>

\* localStorage.getItem(CHUB_TOKEN_KEY)
getChubToken == localStorage

hasChubToken == getChubToken # null /\ Len(Trim(getChubToken)) > 0

----------------------------------------------------------------------------
(* Chub API service: fetchChubCards *)

\* the file called: chubApi.js sends the token, the other copy of the
\* service (src/unnamed/part_001) calls fetch(url) with no headers
FetchImpls == {"chubApi.js", "part_001"}

SORT_MAP(sort) ==
    CASE sort = "recent" -> "created_at"
      [] sort = "trending" -> "trending"
      [] sort = "rating" -> "rating"
      [] sort = "stars" -> "star_count"
      [] sort = "downloads" -> "download_count"
      [] sort = "favorites" -> "n_favorites"
      [] sort = "newcomer" -> "newcomer"
      [] sort = "activity" -> "last_activity_at"
      [] sort = "default" -> "default"
      [] OTHER -> NoParam

\* the options fetchChubCards is tried on, after the defaults (sort 'default',
\* first 200, search '', cursor null, nsfw true): every parameter appended
FetchOptions ==
    { [sort |-> "stars", first |-> "50", search |-> "elf", cursor |-> "c1", nsfw |-> FALSE] }

\* the URLSearchParams built
QueryParams(options) ==
    [first |-> options.first,
     sort |-> IF SORT_MAP(options.sort) # NoParam
              THEN SORT_MAP(options.sort) ELSE SORT_MAP("default"),
     search |-> IF options.search # "" THEN options.search ELSE NoParam,
     cursor |-> IF options.cursor # "" THEN options.cursor ELSE NoParam,
     venus |-> IF ~options.nsfw THEN "false" ELSE NoParam]

Bearer == <<"B", "e", "a", "r", "e", "r", " ">>

\* the headers object of chubApi.js, token being getChubToken()
RequestHeaders(token) ==
    IF token # null /\ token # <<>>
    THEN [Accept |-> <<"application/json">>, CH_API_KEY |-> token,
          Authorization |-> Bearer \o token]
    ELSE [Accept |-> <<"application/json">>, CH_API_KEY |-> undefined,
          Authorization |-> undefined]

\* fetchChubCards(options) up to `await fetch(...)`
FetchChubCards(impl, options) ==
    /\ fetchPc = "idle"
    /\ fetchImpl' = impl
    /\ IF impl = "chubApi.js"
       THEN /\ fetchRequest' =
                   [QueryParams(options) @@ [headers |-> RequestHeaders(getChubToken)]
                       EXCEPT !.headers = RequestHeaders(getChubToken)]
            /\ console' = Append(console,
                                 IF getChubToken # null /\ getChubToken # <<>>
                                 THEN LogEntry("log", "Fetching from Chub API (authenticated)")
                                 ELSE LogEntry("log", "Fetching from Chub API (anonymous)"))
       ELSE /\ fetchRequest' = QueryParams(options) @@ [headers |-> NoHeaders]
            /\ console' = Append(console, LogEntry("log", "Fetching from Chub API"))
    /\ fetchPc' = "awaitFetch"
    /\ UNCHANGED <<localStorage, tokenCalls, lastTokenCall, fetchSettled, fetchResult,
                   exceptChub>>

\* mutant: the catch block swallows the error without logging it
FetchCatchSilent(log) == log

\* console.error of the catch block
FetchCatchLog(log) == Append(log, LogEntry("error", "Error fetching from Chub API"))

\* catch (error) { console.error(...); throw error; }
FetchCatch(error) ==
    /\ console' = FetchCatchLog(console)
    /\ fetchSettled' = "rejected"
    /\ fetchResult' = [NoFetchResult EXCEPT !.error = error]
    /\ fetchPc' = "done"
    /\ UNCHANGED <<localStorage, tokenCalls, lastTokenCall, fetchImpl, fetchRequest,
                   exceptChub>>

\* the promise of fetch rejects
FetchRejects ==
    /\ fetchPc = "awaitFetch"
    /\ FetchCatch("TypeError: Failed to fetch")

\* the promise of fetch resolves to a response
FetchResponds(ok) ==
    /\ fetchPc = "awaitFetch"
    /\ IF ~ok
       THEN FetchCatch("Chub API error")
       ELSE /\ fetchPc' = "awaitJson"
            /\ UNCHANGED <<console, localStorage, tokenCalls, lastTokenCall, fetchImpl,
                           fetchRequest, fetchSettled, fetchResult, exceptChub>>

\* what response.json() may settle to: a parse error, or a body
JsonBodies ==
    { [kind |-> "parseError", nodes |-> <<>>, cursor |-> "", count |-> ""],
      [kind |-> "noData", nodes |-> <<>>, cursor |-> "", count |-> ""],
      [kind |-> "nodesNotArray", nodes |-> <<>>, cursor |-> "", count |-> ""],
      [kind |-> "nodes",
       nodes |-> << [name |-> <<"a">>, fullPath |-> "x/a"], [name |-> <<>>, fullPath |-> ""] >>,
       cursor |-> "c2", count |-> "7"] }

\* transformChubCard, for the fields the other functions read
transformChubCard(node) ==
    [service |-> "chub",
     name |-> OrElse(node.name, <<"U", "n", "k", "n", "o", "w", "n">>),
     creator |-> IF node.fullPath # "" THEN <<"x">> ELSE <<"U", "n", "k", "n", "o", "w", "n">>,
     sourceService |-> "chub"]

CountString(n) == CASE n = 0 -> "0" [] n = 1 -> "1" [] n = 2 -> "2" [] OTHER -> "n"

\* the promise of response.json() settles
JsonSettles(body) ==
    /\ fetchPc = "awaitJson"
    /\ IF body.kind = "parseError"
       THEN FetchCatch("SyntaxError")
       ELSE IF body.kind \in {"noData", "nodesNotArray"}
       THEN FetchCatch("Invalid response format from Chub API")
       ELSE /\ LET cards == [i \in 1..Len(body.nodes) |-> transformChubCard(body.nodes[i])]
               IN fetchResult' =
                      [cards |-> cards,
                       cursor |-> IF body.cursor # "" THEN body.cursor ELSE "null",
                       count |-> IF body.count # "" THEN body.count
                                 ELSE CountString(Len(cards)),
                       error |-> ""]
            /\ fetchSettled' = "resolved"
            /\ fetchPc' = "done"
            /\ UNCHANGED <<console, localStorage, tokenCalls, lastTokenCall, fetchImpl,
                           fetchRequest, exceptChub>>

NextToken ==
    \/ \E token \in TokenArgs : SaveChubToken(token)
    \/ ClearChubToken

NextFetch ==
    \/ \E impl \in FetchImpls, options \in FetchOptions : FetchChubCards(impl, options)
    \/ FetchRejects
    \/ \E ok \in BOOLEAN : FetchResponds(ok)
    \/ \E body \in JsonBodies : JsonSettles(body)

InitChub ==
    /\ console = <<>>
    /\ toasts = <<>>
    /\ IdleDedup
    /\ IdleSort
    /\ IdleFilter
    /\ IdleRandom
    /\ IdleChub
    /\ IdleImages

\* the token functions and fetchChubCards, from empty storage
SpecChub == InitChub /\ [][NextToken \/ NextFetch]_vars

\* fetchChubCards and getRandomCard side by side: the two places that catch
SpecErrors == InitChub /\ [][NextFetch \/ NextRandom]_vars

----------------------------------------------------------------------------
(* C7, C8 *)

C7_Logged(msg) ==
    \E i \in 1..Len(console) : console[i] = [level |-> "error", msg |-> msg]

\* the toasts getRandomCard shows
C7_RandomToasts == {"Loading all cards...", "No cards available", "Failed to get random card"}

\* a toast that getRandomCard did not show: one for the failed fetch
C7_FetchToast == \E i \in 1..Len(toasts) : toasts[i].msg \notin C7_RandomToasts

C7_RandomHandled ==
    C6_LoadFailed =>
        /\ rcPc = "done"
        /\ C7_Logged("Error getting random card")
        /\ \E i \in 1..Len(toasts) :
               toasts[i] = [level |-> "error", msg |-> "Failed to get random card"]

\* C7 as stated: whenever fetchChubCards hits a rejected fetch, a non-OK
\* status, a JSON parse error or a body without a data.nodes array, and
\* whenever getRandomCard hits a failing service load, the failure is
\* caught, logged, and a toast notification is shown to the user.
C7_FailuresToasted ==
    /\ fetchSettled = "rejected" =>
          (C7_Logged("Error fetching from Chub API") /\ C7_FetchToast)
    /\ C7_RandomHandled

\* C7 as amended: fetchChubCards catches each of the four failures, logs it
\* with console.error and rethrows it, so that its promise rejects with the
\* error and fetchChubCards shows no toast; getRandomCard catches a failing
\* service load, logs it, shows the toast 'Failed to get random card' and
\* resolves to null.
C7_FailuresLoggedAndRethrownOrToasted ==
    /\ fetchSettled = "rejected" =>
          /\ fetchPc = "done"
          /\ fetchResult.error # ""
          /\ C7_Logged("Error fetching from Chub API")
    /\ fetchPc = "done" => fetchSettled \in {"resolved", "rejected"}
    /\ (fetchPc = "done" /\ fetchResult.error # "") => fetchSettled = "rejected"
    /\ ~C7_FetchToast
    /\ C7_RandomHandled
    /\ C6_LoadFailed => (rcSettled = "resolved" /\ rcResult = <<>>)

\* a body without data.nodes made fetchChubCards reject, and a rejected
\* service load made getRandomCard toast
C7_Witness ==
    /\ fetchSettled = "rejected"
    /\ fetchResult.error = "Invalid response format from Chub API"
    /\ fetchImpl = "part_001"
    /\ rcPc = "done"
    /\ Len(loadCalls) = 2
    /\ loadCalls[2].state = "rejected"

\* the headers the most recent token call calls for
C8_Expected ==
    IF /\ lastTokenCall.op = "save"
       /\ lastTokenCall.token # undefined
       /\ Trim(lastTokenCall.token) # <<>>
    THEN [key |-> Trim(lastTokenCall.token),
          auth |-> <<"B", "e", "a", "r", "e", "r", " ">> \o Trim(lastTokenCall.token)]
    ELSE [key |-> undefined, auth |-> undefined]

\* C8: a request of fetchChubCards (chubApi.js) carries CH-API-KEY and
\* Authorization: Bearer, each with the trimmed token, exactly when the most
\* recent of the saveChubToken and clearChubToken calls was a saveChubToken
\* with a token that is non-empty after trimming; after a clearChubToken, a
\* saveChubToken of an empty, blank or missing token, or no call at all, it
\* carries neither header.
C8_HeadersFollowToken ==
    [][(fetchPc = "idle" /\ fetchPc' = "awaitFetch" /\ fetchImpl' = "chubApi.js") =>
          /\ fetchRequest'.headers.CH_API_KEY = C8_Expected.key
          /\ fetchRequest'.headers.Authorization = C8_Expected.auth]_vars

\* a request sent after a token was saved, cleared and saved again with
\* blanks around it
C8_Witness ==
    /\ fetchPc = "awaitFetch"
    /\ fetchImpl = "chubApi.js"
    /\ tokenCalls = 3
    /\ lastTokenCall = [op |-> "save", token |-> <<" ", "k", " ">>]
    /\ fetchRequest.headers.CH_API_KEY = <<"k">>
    /\ fetchRequest.headers.Authorization = <<"B", "e", "a", "r", "e", "r", " ", "k">>
    /\ \E i \in 1..Len(console) : console[i].msg = "Chub API token cleared"

----------------------------------------------------------------------------
(* validateCardImages, showImageError *)

None == <<"n", "o", "n", "e">>
UrlOpen == <<"u", "r", "l", "(">>

\* style.backgroundImage of an image element when validateCardImages is
\* first called: '', 'none', 'url("a")', 'url("")', 'g()'
Backgrounds ==
    { <<>>, None, UrlOpen \o <<"\"", "a", "\"", ")">>, UrlOpen \o <<"\"", "\"", ")">>,
      <<"g", "(", ")">> }

\* the images of the document when validateCardImages is first called: t1
\* with any of the backgrounds and no child element, t2 with an image or
\* none and a child element
Badge == [class |-> "badge", errorCode |-> ""]
InitialBackgrounds ==
    {bg \in [Thumbnails -> Backgrounds] : bg["t2"] \in {None, UrlOpen \o <<"\"", "a", "\"", ")">>}}
InitialChildren == [t \in Thumbnails |-> IF t = "t1" THEN <<>> ELSE <<Badge>>]

IsQuote(s, i) == i <= Len(s) /\ s[i] \in {"\"", "'"}
IsClose(s, i) == i <= Len(s) /\ s[i] = ")"
Min(S) == CHOOSE k \in S : \A j \in S : k <= j

\* (.+?)["']?\) from position from: the shortest group of one character or
\* more that an optional quote and a closing parenthesis follow
GroupFrom(s, from) ==
    LET K == {k \in 1..(Len(s) - from + 1) :
                 \/ IsClose(s, from + k)
                 \/ IsQuote(s, from + k) /\ IsClose(s, from + k + 1)}
    IN IF K = {} THEN null ELSE SubSeq(s, from, from + Min(K) - 1)

\* url\(["']?(.+?)["']?\) at position i: the quote is taken if the rest
\* matches with it, and left to the group if not
MatchAt(s, i) ==
    IF i + 3 <= Len(s) /\ SubSeq(s, i, i + 3) = UrlOpen
    THEN IF IsQuote(s, i + 4) /\ GroupFrom(s, i + 5) # null
         THEN GroupFrom(s, i + 5)
         ELSE GroupFrom(s, i + 4)
    ELSE null

\* bgImage.match(/url\(["']?(.+?)["']?\)/): urlMatch[1], or null
UrlMatch(s) ==
    LET I == {i \in 1..Len(s) : MatchAt(s, i) # null}
    IN IF I = {} THEN null ELSE MatchAt(s, Min(I))

\* the condition under which the forEach callback creates a test image
HasImageUrl(bg) == Truthy(bg) /\ bg # None /\ UrlMatch(bg) # null /\ Truthy(UrlMatch(bg))

Placeholder(errorCode) == [class |-> "image-failed-text", errorCode |-> errorCode]

HasPlaceholder(kids) == \E i \in 1..Len(kids) : kids[i].class = "image-failed-text"

PlaceholderAppended(kids, errorCode) == Append(kids, Placeholder(errorCode))

\* imageDiv.innerHTML of showImageError, under its querySelector guard
PlaceholderShown(kids, errorCode) ==
    IF ~HasPlaceholder(kids) THEN <<Placeholder(errorCode)>> ELSE kids

showImageError(t, errorCode) ==
    /\ bgImage' = [bgImage EXCEPT ![t] = None]
    /\ classList' = [classList EXCEPT ![t] = @ \cup {"image-load-failed"}]
    /\ children' = [children EXCEPT ![t] = PlaceholderShown(@, errorCode)]
    /\ console' = Append(console, LogEntry("log", "Showing fallback for card with failed image"))

\* validateCardImages(): the forEach over the thumbnails, each test image
\* left loading
ValidateCardImages ==
    /\ validations < MaxValidations
    /\ validations' = validations + 1
    /\ testImgs' =
           [t \in Thumbnails |->
               IF HasImageUrl(bgImage[t])
               THEN [testImgs[t] EXCEPT ![validations + 1] =
                        [state |-> "loading", src |-> UrlMatch(bgImage[t])]]
               ELSE testImgs[t]]
    /\ UNCHANGED <<console, bgImage, classList, children, failedCount, exceptImages>>

\* the test image loads: it has no onload handler
ImgLoads(t, c) ==
    /\ testImgs[t][c].state = "loading"
    /\ testImgs' = [testImgs EXCEPT ![t][c].state = "loaded"]
    /\ UNCHANGED <<console, bgImage, classList, children, failedCount, validations,
                   exceptImages>>

\* testImg.onerror: the HEAD request is sent
ImgErrors(t, c) ==
    /\ testImgs[t][c].state = "loading"
    /\ testImgs' = [testImgs EXCEPT ![t][c].state = "head"]
    /\ failedCount' = [failedCount EXCEPT ![c] = @ + 1]
    /\ UNCHANGED <<console, bgImage, classList, children, validations, exceptImages>>

\* how the HEAD request settles: response.ok, a status, or a rejection
HeadOutcomes == {"ok", "404", "rejected"}

ErrorCode(outcome) ==
    CASE outcome = "ok" -> "Unknown Error"
      [] outcome = "rejected" -> "Network Error"
      [] OTHER -> "Error " \o outcome

\* the then or the catch callback of the HEAD request
HeadSettles(t, c, outcome) ==
    /\ testImgs[t][c].state = "head"
    /\ testImgs' = [testImgs EXCEPT ![t][c].state = "shown"]
    /\ showImageError(t, ErrorCode(outcome))
    /\ UNCHANGED <<failedCount, validations, exceptImages>>

InitImages ==
    /\ console = <<>>
    /\ toasts = <<>>
    /\ IdleDedup
    /\ IdleSort
    /\ IdleFilter
    /\ IdleRandom
    /\ IdleChub
    /\ bgImage \in InitialBackgrounds
    /\ classList = [t \in Thumbnails |-> {"bot-browser-card-image"}]
    /\ children = InitialChildren
    /\ NoValidation

NextImages ==
    \/ ValidateCardImages
    \/ \E t \in Thumbnails, c \in Calls : ImgLoads(t, c)
    \/ \E t \in Thumbnails, c \in Calls : ImgErrors(t, c)
    \/ \E t \in Thumbnails, c \in Calls, outcome \in HeadOutcomes : HeadSettles(t, c, outcome)

SpecImages == InitImages /\ [][NextImages]_vars

\* every HEAD request is settled by the browser
SpecImagesFair ==
    /\ SpecImages
    /\ \A t \in Thumbnails, c \in Calls :
           WF_vars(\E outcome \in HeadOutcomes : HeadSettles(t, c, outcome))

----------------------------------------------------------------------------
(* C9 *)

C9_Failed(t) == \E c \in Calls : testImgs[t][c].state \in {"head", "shown"}

\* a test image of t failed and its HEAD request has not settled
C9_HeadPending(t) == \E c \in Calls : testImgs[t][c].state = "head"

C9_Swapped(t) == bgImage[t] = None /\ "image-load-failed" \in classList[t]

C9_Placeholders(t) ==
    Cardinality({i \in 1..Len(children[t]) : children[t][i].class = "image-failed-text"})

\* the step is the then or the catch callback of a HEAD request for t
C9_HeadSettled(t) ==
    \E c \in Calls : testImgs[t][c].state = "head" /\ testImgs'[t][c].state = "shown"

----------------------------------------------------------------------------
(* C11 *)

\* the request fetchChubCards of chubApi.js would send now carries the
\* authentication headers
C11_HeadersSent(headers) ==
    headers.CH_API_KEY # undefined /\ headers.Authorization # undefined

C11_NoHeaderSent(headers) ==
    headers.CH_API_KEY = undefined /\ headers.Authorization = undefined

C11_StoredWellFormed ==
    \/ localStorage = null
    \/ /\ Len(localStorage) > 0
       /\ localStorage[1] \notin Whitespace
       /\ localStorage[Len(localStorage)] \notin Whitespace

\* C11: after any sequence of saveChubToken and clearChubToken calls from
\* empty storage, the value under botBrowser_chubApiToken is absent or a
\* non-empty string without leading or trailing whitespace; hasChubToken()
\* is true exactly when getChubToken() is not null; and a request of
\* fetchChubCards (chubApi.js) carries the two authentication headers
\* exactly then, and neither of them otherwise.
C11_TokenStorageInvariant ==
    /\ [](C11_StoredWellFormed /\ (hasChubToken <=> getChubToken # null))
    /\ [][(fetchPc = "idle" /\ fetchPc' = "awaitFetch" /\ fetchImpl' = "chubApi.js") =>
             IF hasChubToken
             THEN C11_HeadersSent(fetchRequest'.headers)
             ELSE C11_NoHeaderSent(fetchRequest'.headers)]_vars

\* a blank token was saved, then a token with blanks around it, and
\* the request that followed carried the headers
C11_Witness ==
    /\ tokenCalls >= 2
    /\ \E i \in 1..Len(console) : console[i].msg = "Chub API token removed"
    /\ lastTokenCall = [op |-> "save", token |-> <<" ", "k", " ">>]
    /\ localStorage = <<"k">>
    /\ hasChubToken
    /\ fetchPc = "awaitFetch"
    /\ fetchImpl = "chubApi.js"
    /\ C11_HeadersSent(fetchRequest.headers)

----------------------------------------------------------------------------
(* C12 *)

\* the normalized name: lowercased and trimmed, '' for a card without one
C12_Name(card) == Trim(ToLowerCase(IF Truthy(card.name) THEN card.name ELSE <<>>))

\* the normalized creator: lowercased and trimmed; a card without a creator
\* has none, which is no text
C12_Creator(card) ==
    IF Truthy(card.creator) THEN Trim(ToLowerCase(card.creator)) ELSE undefined

C12_Removed(i) == \A j \in 1..Len(ddResult) : ddResult[j].id # i

\* C12: deduplicateCards removes a card only when an earlier card has both
\* the same normalized name and the same normalized creator, also when a
\* name or a creator contains '|' and when one card has no creator and the
\* other has the creator 'Unknown'.
C12_RemovesOnlySameNameAndCreator ==
    ddPc = "returned" =>
        \A i \in 1..Len(ddCards) :
            C12_Removed(i) =>
                \E k \in 1..(i - 1) :
                    /\ C12_Name(ddCards[k]) = C12_Name(ddCards[i])
                    /\ C12_Creator(ddCards[k]) = C12_Creator(ddCards[i])

\* a card with the creator 'Unknown' was removed as the duplicate of a card
\* without creator, the only card before it
C12_Witness ==
    /\ ddPc = "returned"
    /\ Len(ddCards) = 2
    /\ ddCards[1].name = <<"a">>
    /\ ddCards[1].creator = undefined
    /\ ddCards[2].name = <<"a">>
    /\ ddCards[2].creator = <<"U", "n", "k", "n", "o", "w", "n">>
    /\ Len(ddResult) = 1
    /\ ddResult[1].id = 1

----------------------------------------------------------------------------
(* C13 *)

\* the chosen image URL: avatar_url when non-empty, otherwise image_url
C13_ChosenUrl(card) ==
    IF card.avatar_url # undefined /\ card.avatar_url # <<>>
    THEN card.avatar_url
    ELSE card.image_url

C13_HttpUrl(url) ==
    /\ url # undefined
    /\ \E i \in 1..Len(url) : url[i] \notin Whitespace
    /\ \/ (Len(url) >= 7 /\ SubSeq(url, 1, 7) = <<"h", "t", "t", "p", ":", "/", "/">>)
       \/ (Len(url) >= 8 /\ SubSeq(url, 1, 8) = <<"h", "t", "t", "p", "s", ":", "/", "/">>)

C13_Eligible(card) == C13_HttpUrl(C13_ChosenUrl(card))

\* the eligible cards of a load, tagged with the service they were loaded from
C13_Tagged(serviceCards, service) ==
    LET keep == {i \in 1..Len(serviceCards) : C13_Eligible(serviceCards[i])}
        RECURSIVE From(_)
        From(i) ==
            IF i > Len(serviceCards) THEN <<>>
            ELSE (IF i \in keep
                  THEN <<[serviceCards[i] EXCEPT !.sourceService = service]>>
                  ELSE <<>>) \o From(i + 1)
    IN From(1)

C13_FromAll == rcSource \in {"all", "", NoSource}

\* C13: every card getRandomCard returns is an eligible candidate. Its
\* chosen image URL (avatar_url when non-empty, otherwise image_url) is
\* non-blank and starts with http:// or https://, so that a card whose
\* avatar_url is non-empty but not http(s) is never returned; for source
\* 'current' or a service name it is one of currentCards; for source 'all'
\* or unset it is one of the candidates, every candidate is eligible and
\* tagged with a service whose load has resolved, and the candidates grow
\* only when a load resolves, by the eligible cards that load returned,
\* tagged with the service it was called for.
C13_ReturnsEligibleCandidate ==
    /\ [](/\ \A i \in 1..Len(rcCards) :
                /\ C13_Eligible(rcCards[i])
                /\ C13_FromAll =>
                      \E k \in 1..Len(loadCalls) :
                          /\ loadCalls[k].state = "resolved"
                          /\ loadCalls[k].service = rcCards[i].sourceService
          /\ (rcPc = "done" /\ rcResult # <<>>) =>
                /\ C13_Eligible(rcResult[1])
                /\ \E i \in 1..Len(rcCards) : rcCards[i] = rcResult[1]
                /\ ~C13_FromAll => \E i \in 1..Len(rcCurrent) : rcCurrent[i] = rcResult[1])
    /\ [][(rcPc = "awaitLoad" /\ rcCards' # rcCards) =>
             /\ loadCalls[rcIdx].state = "pending"
             /\ loadCalls'[rcIdx].state = "resolved"
             /\ rcCards' = rcCards \o C13_Tagged(rcServiceCards', loadCalls[rcIdx].service)]_vars
    /\ [][(rcPc = "awaitLoad" /\ rcIdx <= Len(loadCalls') /\ loadCalls'[rcIdx].state = "resolved") =>
             rcCards' = rcCards \o C13_Tagged(rcServiceCards', loadCalls[rcIdx].service)]_vars

\* the last service returned a card with an ftp avatar_url and an https
\* image_url, and a card with an https avatar_url: the second was returned,
\* tagged with that service
C13_Witness ==
    /\ rcPc = "done"
    /\ rcSource = NoSource
    /\ rcServiceCards = <<CardFtpAvatar, CardHttpsAvatar>>
    /\ Len(loadCalls) = 9
    /\ rcResult = <<[CardHttpsAvatar EXCEPT !.sourceService = "desuarchive"]>>
    /\ Len(rcCards) = 2
    /\ rcCards[1].sourceService = "catbox"

====
